---- MODULE Spec2Model ----
(***************************************************************************)
(* The users CRUD service of src/app.js (lines 1-224) with the validators  *)
(* of src/unnamed/part_000 (utils/validations).                            *)
(*                                                                         *)
(* JavaScript values are records [type, num, str]; a string is a sequence  *)
(* of one-character strings, so that trim(), the e-mail pattern and        *)
(* Number() are computed character by character.  A JSON object is a       *)
(* function from the keys it holds to values: a key that is absent reads   *)
(* as undefined, as in JavaScript.                                         *)
(*                                                                         *)
(* Each handler runs from the request to its first await in one step,      *)
(* from the completion of fs.readFile to the response or to the await of   *)
(* fs.writeFile in a second step, and from the completion of fs.writeFile  *)
(* to the response in a third.                                             *)
(***************************************************************************)
EXTENDS Integers, Sequences, FiniteSets, TLC

VARIABLES file, req

vars == <<file, req>>

---------------------------------------------------------------------------
(* Bounds of the model *)

\* Create requests are only issued while the collection is shorter than this.
MaxUsers == 2

\* Number of requests that may be in flight at once in SpecRace.
MaxInFlight == 2

---------------------------------------------------------------------------
(* JavaScript values *)

Undefined == [type |-> "undefined", num |-> 0, str |-> <<>>]
Null == [type |-> "null", num |-> 0, str |-> <<>>]
Num(n) == [type |-> "number", num |-> n, str |-> <<>>]
Str(s) == [type |-> "string", num |-> 0, str |-> s]

\* typeof v
typeof(v) == IF v.type = "null" THEN "object" ELSE v.type

\* !v is ~Truthy(v): undefined, null, 0 and "" are falsy
Truthy(v) ==
    CASE v.type = "number" -> v.num # 0
      [] v.type = "string" -> Len(v.str) > 0
      [] OTHER -> FALSE

WhiteSpace == {" "}
Digits == {"0", "1", "2", "3", "4", "5", "6", "7", "8", "9"}

DigitValue(c) ==
    CASE c = "0" -> 0 [] c = "1" -> 1 [] c = "2" -> 2 [] c = "3" -> 3
      [] c = "4" -> 4 [] c = "5" -> 5 [] c = "6" -> 6 [] c = "7" -> 7
      [] c = "8" -> 8 [] c = "9" -> 9

RECURSIVE TrimStart(_)
TrimStart(s) ==
    IF s # <<>> /\ Head(s) \in WhiteSpace THEN TrimStart(Tail(s)) ELSE s

RECURSIVE TrimEnd(_)
TrimEnd(s) ==
    IF s # <<>> /\ s[Len(s)] \in WhiteSpace
    THEN TrimEnd(SubSeq(s, 1, Len(s) - 1))
    ELSE s

\* String.prototype.trim
trim(s) == TrimEnd(TrimStart(s))

RECURSIVE DecimalValue(_)
DecimalValue(s) ==
    IF s = <<>> THEN 0
    ELSE 10 * DecimalValue(SubSeq(s, 1, Len(s) - 1)) + DigitValue(s[Len(s)])

AllDigits(s) == s # <<>> /\ \A i \in 1..Len(s) : s[i] \in Digits

NaN == [nan |-> TRUE, n |-> 0]
Finite(n) == [nan |-> FALSE, n |-> n]

\* Number(string): white space is trimmed, the empty string is 0, an optionally
\* signed run of decimal digits is its value, anything else is NaN.  (The
\* strings of the model hold no ".", "e", "x" or "Infinity" literal.)
StringToNumber(s) ==
    LET t == trim(s) IN
    IF t = <<>> THEN Finite(0)
    ELSE IF AllDigits(t) THEN Finite(DecimalValue(t))
    ELSE IF Head(t) = "-" /\ AllDigits(Tail(t)) THEN Finite(0 - DecimalValue(Tail(t)))
    ELSE IF Head(t) = "+" /\ AllDigits(Tail(t)) THEN Finite(DecimalValue(Tail(t)))
    ELSE NaN

\* Number(v)
Number(v) ==
    CASE v.type = "number" -> Finite(v.num)
      [] v.type = "string" -> StringToNumber(v.str)
      [] v.type = "null" -> Finite(0)
      [] OTHER -> NaN

\* Number(a) === Number(b): NaN equals nothing, itself included
NumberEq(a, b) == ~Number(a).nan /\ ~Number(b).nan /\ Number(a).n = Number(b).n

\* a === b on the values of the model (no NaN, no object among them)
StrictEq(a, b) == a = b

---------------------------------------------------------------------------
(* JSON objects and documents *)

Fields == {"id", "name", "email", "age"}

\* obj[k]
Get(obj, k) == IF k \in DOMAIN obj THEN obj[k] ELSE Undefined

\* obj[k] = v
Set(obj, k, v) == [f \in (DOMAIN obj) \cup {k} |-> IF f = k THEN v ELSE obj[f]]

\* JSON.parse(JSON.stringify(obj)): a key whose value is undefined is dropped
StringifyObject(obj) ==
    [f \in {k \in DOMAIN obj : obj[k].type # "undefined"} |-> obj[f]]

\* JSON.parse(JSON.stringify(arr))
Stringify(arr) == [i \in 1..Len(arr) |-> StringifyObject(arr[i])]

\* The content of the users file, parsed: an array of objects, or a JSON
\* value that is not an array.
ArrayDoc(items) == [kind |-> "array", items |-> items]
ObjectDoc == [kind |-> "object", items |-> <<>>]
NoDoc == [kind |-> "none", items |-> <<>>]

---------------------------------------------------------------------------
(* utils/validations *)

Valid == [isValid |-> TRUE, error |-> ""]
Invalid(msg) == [isValid |-> FALSE, error |-> msg]

validateRequiredFields(userData) ==
    IF \/ ~Truthy(userData.id)
       \/ ~Truthy(userData.name)
       \/ ~Truthy(userData.email)
       \/ typeof(userData.age) # "number"
    THEN Invalid("Missing or invalid fields. Required: id, name, email, age (number)")
    ELSE Valid

validateName(name) ==
    IF typeof(name) # "string" \/ Len(trim(name.str)) < 2
    THEN Invalid("Name must be at least 2 characters long")
    ELSE Valid

validateAge(age) ==
    IF typeof(age) # "number" \/ age.num <= 0
    THEN Invalid("Age must be a positive number")
    ELSE Valid

\* [^\s@]
NotSpaceNorAt(c) == c \notin WhiteSpace /\ c # "@"

\* /^[^\s@]+@[^\s@]+\.[^\s@]+$/.test(s): an "@" at i after one or more
\* [^\s@], a "." at k with one or more [^\s@] on either side of it up to the end
emailRegexTest(s) ==
    \E i \in 1..Len(s), k \in 1..Len(s) :
        /\ s[i] = "@"
        /\ i > 1
        /\ \A j \in 1..(i - 1) : NotSpaceNorAt(s[j])
        /\ s[k] = "."
        /\ i + 1 < k
        /\ k < Len(s)
        /\ \A j \in (i + 1)..Len(s) : NotSpaceNorAt(s[j])

validateEmail(email) ==
    IF typeof(email) # "string" \/ ~emailRegexTest(email.str)
    THEN Invalid("Invalid email format")
    ELSE Valid

RequiredFields == <<"id", "name", "email", "age">>

\* HasRequiredFields without its comparison with null
HasRequiredFieldsDefined(user) ==
    \A n \in 1..Len(RequiredFields) : Get(user, RequiredFields[n]).type # "undefined"

\* user => requiredFields.every(field => user[field] !== undefined && user[field] !== null)
HasRequiredFields(user) ==
    \A n \in 1..Len(RequiredFields) :
        /\ Get(user, RequiredFields[n]).type # "undefined"
        /\ Get(user, RequiredFields[n]).type # "null"

validateUsersData(usersData) ==
    IF usersData.kind # "array" \/ Len(usersData.items) = 0
    THEN Invalid("No users found")
    ELSE IF \E i \in 1..Len(usersData.items) : ~HasRequiredFields(usersData.items[i])
    THEN Invalid("Invalid user data detected")
    ELSE Valid

Exists(msg) == [exists |-> TRUE, error |-> msg]
NotExists == [exists |-> FALSE, error |-> ""]

\* checkUserExists comparing the ids alone
checkUserExistsIdOnly(usersData, id, email) ==
    IF \E i \in 1..Len(usersData) : StrictEq(Get(usersData[i], "id"), id)
    THEN Exists("User with this id or email already exists")
    ELSE NotExists

checkUserExists(usersData, id, email) ==
    IF \E i \in 1..Len(usersData) :
           \/ StrictEq(Get(usersData[i], "id"), id)
           \/ StrictEq(Get(usersData[i], "email"), email)
    THEN Exists("User with this id or email already exists")
    ELSE NotExists

\* checkEmailInUse with idx === excludeIndex for idx !== excludeIndex
checkEmailInUseInverted(usersData, email, excludeIndex) ==
    IF \E idx \in 1..Len(usersData) :
           StrictEq(Get(usersData[idx], "email"), email) /\ idx = excludeIndex
    THEN Exists("Email already in use by another user")
    ELSE NotExists

\* checkEmailInUse that does not exclude excludeIndex
checkEmailInUseNoExclude(usersData, email, excludeIndex) ==
    IF \E idx \in 1..Len(usersData) : StrictEq(Get(usersData[idx], "email"), email)
    THEN Exists("Email already in use by another user")
    ELSE NotExists

checkEmailInUse(usersData, email, excludeIndex) ==
    IF \E idx \in 1..Len(usersData) :
           StrictEq(Get(usersData[idx], "email"), email) /\ idx # excludeIndex
    THEN Exists("Email already in use by another user")
    ELSE NotExists

\* validateUserForCreation with the email checked before the age
validateUserForCreationEmailFirst(userData) ==
    IF ~validateRequiredFields(userData).isValid THEN validateRequiredFields(userData)
    ELSE IF ~validateName(userData.name).isValid THEN validateName(userData.name)
    ELSE IF ~validateEmail(userData.email).isValid THEN validateEmail(userData.email)
    ELSE IF ~validateAge(userData.age).isValid THEN validateAge(userData.age)
    ELSE Valid

validateUserForCreation(userData) ==
    IF ~validateRequiredFields(userData).isValid THEN validateRequiredFields(userData)
    ELSE IF ~validateName(userData.name).isValid THEN validateName(userData.name)
    ELSE IF ~validateAge(userData.age).isValid THEN validateAge(userData.age)
    ELSE IF ~validateEmail(userData.email).isValid THEN validateEmail(userData.email)
    ELSE Valid

\* validateUserForUpdate with the age checked before the email
validateUserForUpdateAgeFirst(userData) ==
    IF userData.name.type # "undefined" /\ ~validateName(userData.name).isValid
    THEN validateName(userData.name)
    ELSE IF userData.age.type # "undefined" /\ ~validateAge(userData.age).isValid
    THEN validateAge(userData.age)
    ELSE IF userData.email.type # "undefined" /\ ~validateEmail(userData.email).isValid
    THEN validateEmail(userData.email)
    ELSE Valid

validateUserForUpdate(userData) ==
    IF userData.name.type # "undefined" /\ ~validateName(userData.name).isValid
    THEN validateName(userData.name)
    ELSE IF userData.email.type # "undefined" /\ ~validateEmail(userData.email).isValid
    THEN validateEmail(userData.email)
    ELSE IF userData.age.type # "undefined" /\ ~validateAge(userData.age).isValid
    THEN validateAge(userData.age)
    ELSE Valid

\* validateUserId without its numeric check
validateUserIdPresence(id) ==
    IF ~Truthy(id) \/ (typeof(id) # "string" /\ typeof(id) # "number")
    THEN Invalid("User ID is required and must be a string or number")
    ELSE Valid

validateUserId(id) ==
    IF ~Truthy(id) \/ (typeof(id) # "string" /\ typeof(id) # "number")
    THEN Invalid("User ID is required and must be a string or number")
    ELSE IF Number(id).nan \/ Number(id).n <= 0
    THEN Invalid("User ID must be a valid positive number")
    ELSE Valid

---------------------------------------------------------------------------
(* Requests: the local variables of one run of a handler of src/app.js *)

Slots == 1..MaxInFlight

EmptyObject == [f \in {} |-> Undefined]
NoBody == [id |-> Undefined, name |-> Undefined, email |-> Undefined, age |-> Undefined]
NoRes == [status |-> 0, error |-> "", message |-> "", body |-> <<>>]

\* No request: nothing received yet
Idle ==
    [pc |-> "idle", method |-> "", userId |-> Undefined, body |-> NoBody,
     fileContent |-> NoDoc, usersData |-> <<>>, userIndex |-> 0,
     deletedUser |-> EmptyObject, err |-> "", res |-> NoRes]

\* A request as received: req.params.id and the destructured req.body
Received(method, userId, body) ==
    [Idle EXCEPT !.pc = "received", !.method = method, !.userId = userId, !.body = body]

\* res.status(status).json({ error })
RespondError(r, status, error) ==
    [r EXCEPT !.pc = "done",
              !.res = [status |-> status, error |-> error, message |-> "", body |-> <<>>]]

\* res.status(status).json({ message, <key>: obj }) and res.status(200).json(array)
RespondOk(r, status, message, body) ==
    [r EXCEPT !.pc = "done",
              !.res = [status |-> status, error |-> "", message |-> message,
                       body |-> Stringify(body)]]

\* the catch block of each handler
Catch(r, err) ==
    RespondError([r EXCEPT !.err = err], 500,
                 IF r.method = "DELETE" THEN "Error processing user deletion"
                 ELSE "Error reading users data")

\* await fs.readFile(...) / await fs.writeFile(...)
Await(r, pc) == [r EXCEPT !.pc = pc]

\* findIndex with Object.is(Number(user.id), Number(userId)): NaN equals NaN
findIndexSameValue(usersData, userId) ==
    LET Same(a, b) == NumberEq(a, b) \/ (Number(a).nan /\ Number(b).nan) IN
    IF \E i \in 1..Len(usersData) : Same(Get(usersData[i], "id"), userId)
    THEN CHOOSE i \in 1..Len(usersData) :
             /\ Same(Get(usersData[i], "id"), userId)
             /\ \A j \in 1..(i - 1) : ~Same(Get(usersData[j], "id"), userId)
    ELSE 0

\* usersData.findIndex(user => Number(user.id) === Number(userId)), counted
\* from 1, and 0 where JavaScript gives -1
findIndex(usersData, userId) ==
    IF \E i \in 1..Len(usersData) : NumberEq(Get(usersData[i], "id"), userId)
    THEN CHOOSE i \in 1..Len(usersData) :
             /\ NumberEq(Get(usersData[i], "id"), userId)
             /\ \A j \in 1..(i - 1) : ~NumberEq(Get(usersData[j], "id"), userId)
    ELSE 0

\* usersData.unshift(newUser)
unshift(usersData, newUser) == <<newUser>> \o usersData

\* usersData.push(newUser)
push(usersData, newUser) == Append(usersData, newUser)

\* usersData.splice(userIndex): everything from userIndex on is removed
spliceToEnd(usersData, userIndex) == SubSeq(usersData, 1, userIndex - 1)

\* usersData.splice(userIndex, 1)
splice(usersData, userIndex) ==
    [i \in 1..(Len(usersData) - 1) |->
        IF i < userIndex THEN usersData[i] ELSE usersData[i + 1]]

\* const newUser = { id, name, email, age }
newUserOf(body) ==
    [f \in Fields |-> CASE f = "id" -> body.id [] f = "name" -> body.name
                        [] f = "email" -> body.email [] f = "age" -> body.age]

\* { id: deletedUser.id, name: deletedUser.name, email: deletedUser.email }
reducedUser(deletedUser) ==
    [f \in {"id", "name", "email"} |-> Get(deletedUser, f)]

\* usersData[userIndex] = { [field]: value }
assignReplacing(usersData, userIndex, field, value) ==
    [usersData EXCEPT ![userIndex] = [f \in {field} |-> value]]

\* usersData[userIndex].field = value
assign(usersData, userIndex, field, value) ==
    [usersData EXCEPT ![userIndex] = Set(usersData[userIndex], field, value)]

---------------------------------------------------------------------------
(* The handlers, from the request to the first await *)

\* app.get('/users'): nothing runs before the read
getUsersReceived(r) == Await(r, "readFile")

\* app.post('/users')
postUsersReceived(r) ==
    LET validation == validateUserForCreation(r.body) IN
    IF ~validation.isValid THEN RespondError(r, 400, validation.error)
    ELSE Await(r, "readFile")

\* app.put('/users/:id')
putUsersReceived(r) ==
    LET validation == validateUserForUpdate(r.body) IN
    IF ~validation.isValid THEN RespondError(r, 400, validation.error)
    ELSE Await(r, "readFile")

\* app.delete('/users/:id')
deleteUsersReceived(r) ==
    LET idValidation == validateUserId(r.userId) IN
    IF ~idValidation.isValid THEN RespondError(r, 400, idValidation.error)
    ELSE Await(r, "readFile")

---------------------------------------------------------------------------
(* The handlers, from the completion of readFile to a response or to the  *)
(* await of writeFile.  r.fileContent is what was read.                    *)

getUsersRead(r) ==
    LET validation == validateUsersData(r.fileContent) IN
    IF ~validation.isValid
    THEN RespondError(r, IF validation.error = "No users found" THEN 404 ELSE 500,
                      validation.error)
    ELSE RespondOk(r, 200, "", r.fileContent.items)

postUsersRead(r) ==
    LET usersData == r.fileContent.items
        existsCheck == checkUserExists(usersData, r.body.id, r.body.email)
    IN
    \* usersData.some is not a function
    IF r.fileContent.kind # "array" THEN Catch(r, "TypeError")
    ELSE IF existsCheck.exists
    THEN RespondError([r EXCEPT !.usersData = usersData], 409, existsCheck.error)
    ELSE Await([r EXCEPT !.usersData = push(usersData, newUserOf(r.body))], "writeFile")

putUsersRead(r) ==
    LET usersData == r.fileContent.items
        userIndex == findIndex(usersData, r.userId)
        named == IF r.body.name.type # "undefined"
                 THEN assign(usersData, userIndex, "name", r.body.name)
                 ELSE usersData
        emailCheck == checkEmailInUse(named, r.body.email, userIndex)
        mailed == IF r.body.email.type # "undefined"
                  THEN assign(named, userIndex, "email", r.body.email)
                  ELSE named
        aged == IF r.body.age.type # "undefined"
                THEN assign(mailed, userIndex, "age", r.body.age)
                ELSE mailed
    IN
    \* usersData.findIndex is not a function
    IF r.fileContent.kind # "array" THEN Catch(r, "TypeError")
    ELSE IF userIndex = 0
    THEN RespondError([r EXCEPT !.usersData = usersData], 404, "User not found")
    ELSE IF r.body.email.type # "undefined" /\ emailCheck.exists
    THEN RespondError([r EXCEPT !.usersData = named, !.userIndex = userIndex],
                      409, emailCheck.error)
    ELSE Await([r EXCEPT !.usersData = aged, !.userIndex = userIndex], "writeFile")

deleteUsersRead(r) ==
    LET usersData == r.fileContent.items
        userIndex == findIndex(usersData, r.userId)
    IN
    IF r.fileContent.kind # "array" THEN Catch(r, "TypeError")
    ELSE IF userIndex = 0
    THEN RespondError([r EXCEPT !.usersData = usersData], 404, "User not found")
    ELSE Await([r EXCEPT !.usersData = splice(usersData, userIndex),
                         !.userIndex = userIndex,
                         !.deletedUser = usersData[userIndex]], "writeFile")

---------------------------------------------------------------------------
(* The handlers, from the completion of writeFile to the response *)

postUsersWritten(r) ==
    RespondOk(r, 201, "User registered successfully", <<newUserOf(r.body)>>)

putUsersWritten(r) ==
    RespondOk(r, 200, "User updated successfully", <<r.usersData[r.userIndex]>>)

deleteUsersWritten(r) ==
    RespondOk(r, 200, "User deleted successfully", <<reducedUser(r.deletedUser)>>)

\* JSON.stringify(usersData, null, 2), as fs.writeFile leaves it in the file
written(usersData) == ArrayDoc(Stringify(usersData))

---------------------------------------------------------------------------
(* The inputs of the model *)

sJo == Str(<<"J", "o">>)
sAl == Str(<<"A", "l">>)
sJ == Str(<<" ", "J", " ">>)
eA == Str(<<"a", "@", "b", ".", "c">>)
eB == Str(<<"d", "@", "e", ".", "f">>)
eC == Str(<<"g", "@", "h", ".", "i">>)
eBad == Str(<<"a", "@", "b">>)
id1 == Num(1)
idS1 == Str(<<"1">>)
idAbc == Str(<<"a", "b", "c">>)
age30 == Num(30)
age41 == Num(41)
ageNeg == Num(0 - 1)
ageStr == Str(<<"3", "0">>)

User(id, name, email, age) == [id |-> id, name |-> name, email |-> email, age |-> age]

\* Bodies of POST /users that pass validateUserForCreation
ValidBodies ==
    {User(id, na[1], email, na[2]) :
        id \in {id1, idS1, idAbc}, na \in {<<sJo, age30>>, <<sAl, age41>>},
        email \in {eA, eB, eC}}

\* Bodies of POST /users with one or more fields that fail a check
InvalidBodies ==
    {b \in [id : {id1, Undefined}, name : {sJo, sJ}, email : {eA, eBad}, age : {age30, ageNeg}] :
        b # User(id1, sJo, eA, age30)}
    \cup {User(Num(0), sJo, eA, age30), User(id1, Undefined, eA, age30),
          User(id1, sJo, Undefined, age30), User(id1, sJo, eA, Undefined),
          User(id1, sJo, eA, ageStr)}

PostBodies == ValidBodies \cup InvalidBodies

\* Bodies of PUT /users/:id: the fields that are absent are undefined
PutBodies ==
    {User(Undefined, name, email, age) :
        name \in {Undefined, sAl}, email \in {Undefined, eA, eB}, age \in {Undefined, age41}}
    \cup {User(Undefined, name, email, age) :
        name \in {Undefined, sJ}, email \in {Undefined, eBad}, age \in {Undefined, ageNeg}}
    \cup {User(Undefined, sAl, eBad, Undefined), User(Undefined, Undefined, eA, ageStr)}

\* req.params.id is a string
PutIds == {Str(<<"1">>), Str(<<"2">>), Str(<<"a", "b", "c">>)}
DeleteIds == PutIds \cup {Str(<<"0">>), Str(<<"-", "1">>)}

\* The users files the service starts from
InitFiles ==
    {ArrayDoc(<<>>),
     ObjectDoc,
     ArrayDoc(<<User(id1, sJo, eA, age30)>>),
     ArrayDoc(<<[id |-> id1, name |-> sJo, age |-> age30]>>),
     ArrayDoc(<<User(idAbc, sAl, eB, age41), User(idS1, sJo, eC, Null)>>)}

---------------------------------------------------------------------------
(* Actions *)

Free(s) == req[s].pc = "idle"

\* GET /users arrives
GetUsers(s) ==
    /\ Free(s)
    /\ req' = [req EXCEPT ![s] = getUsersReceived(Received("GET", Undefined, NoBody))]
    /\ UNCHANGED file

\* POST /users arrives with body
PostUsers(s, body) ==
    /\ Free(s)
    /\ Len(file.items) < MaxUsers
    /\ req' = [req EXCEPT ![s] = postUsersReceived(Received("POST", Undefined, body))]
    /\ UNCHANGED file

\* PUT /users/userId arrives with body
PutUsers(s, userId, body) ==
    /\ Free(s)
    /\ req' = [req EXCEPT ![s] = putUsersReceived(Received("PUT", userId, body))]
    /\ UNCHANGED file

\* DELETE /users/userId arrives
DeleteUsers(s, userId) ==
    /\ Free(s)
    /\ req' = [req EXCEPT ![s] = deleteUsersReceived(Received("DELETE", userId, NoBody))]
    /\ UNCHANGED file

\* the handler's code after `await fs.readFile` and JSON.parse
afterRead(r) ==
    CASE r.method = "GET" -> getUsersRead(r)
      [] r.method = "POST" -> postUsersRead(r)
      [] r.method = "PUT" -> putUsersRead(r)
      [] r.method = "DELETE" -> deleteUsersRead(r)

\* the handler's code after `await fs.writeFile`
afterWrite(r) ==
    CASE r.method = "POST" -> postUsersWritten(r)
      [] r.method = "PUT" -> putUsersWritten(r)
      [] r.method = "DELETE" -> deleteUsersWritten(r)

\* fs.readFile and JSON.parse complete
ReadFile(s) ==
    /\ req[s].pc = "readFile"
    /\ req' = [req EXCEPT ![s] = afterRead([req[s] EXCEPT !.fileContent = file])]
    /\ UNCHANGED file

\* fs.readFile rejects, or JSON.parse throws
ReadFault(s) ==
    /\ req[s].pc = "readFile"
    /\ req' = [req EXCEPT ![s] = Catch(req[s], "readFile")]
    /\ UNCHANGED file

\* a Create that appends its record to the file as it is now, not to its copy
WriteFileAppending(s) ==
    /\ req[s].pc = "writeFile"
    /\ file' = IF req[s].method = "POST"
               THEN ArrayDoc(Stringify(push(file.items, newUserOf(req[s].body))))
               ELSE written(req[s].usersData)
    /\ req' = [req EXCEPT ![s] = afterWrite(req[s])]

\* a save that is refused when the file is no longer what the request read
WriteFileChecked(s) ==
    /\ req[s].pc = "writeFile"
    /\ IF file = req[s].fileContent
       THEN /\ file' = written(req[s].usersData)
            /\ req' = [req EXCEPT ![s] = afterWrite(req[s])]
       ELSE /\ UNCHANGED file
            /\ req' = [req EXCEPT ![s] = RespondError(req[s], 409, "Conflict")]

\* fs.writeFile completes
WriteFile(s) ==
    /\ req[s].pc = "writeFile"
    /\ file' = written(req[s].usersData)
    /\ req' = [req EXCEPT ![s] = afterWrite(req[s])]

\* fs.writeFile rejects: the store's save fails and leaves the file as it was
WriteFault(s) ==
    /\ req[s].pc = "writeFile"
    /\ req' = [req EXCEPT ![s] = Catch(req[s], "writeFile")]
    /\ UNCHANGED file

\* the response is sent and the handler returns: its locals are gone
Finish(s) ==
    /\ req[s].pc = "done"
    /\ req' = [req EXCEPT ![s] = Idle]
    /\ UNCHANGED file

---------------------------------------------------------------------------
(* Spec: the requests run one after the other, each to its response *)

Init ==
    /\ file \in InitFiles
    /\ req = [s \in Slots |-> Idle]

Next ==
    \/ GetUsers(1)
    \/ \E body \in PostBodies : PostUsers(1, body)
    \/ \E userId \in PutIds, body \in PutBodies : PutUsers(1, userId, body)
    \/ \E userId \in DeleteIds : DeleteUsers(1, userId)
    \/ ReadFile(1)
    \/ ReadFault(1)
    \/ WriteFile(1)
    \/ WriteFault(1)
    \/ Finish(1)

Spec == Init /\ [][Next]_vars

---------------------------------------------------------------------------
(* SpecRace: up to MaxInFlight requests in flight, their reads and writes  *)
(* of the users file interleaved in any order                              *)

RacePostBodies == {User(id1, sJo, eA, age30), User(idS1, sAl, eB, age41)}

RacePutBodies == {User(Undefined, sAl, eB, Undefined)}

RaceIds == {Str(<<"1">>)}

InitRace ==
    /\ file \in {ArrayDoc(<<>>), ArrayDoc(<<User(id1, sJo, eA, age30)>>)}
    /\ req = [s \in Slots |-> Idle]

NextRace ==
    \E s \in Slots :
        \/ \E body \in RacePostBodies : PostUsers(s, body)
        \/ \E userId \in RaceIds, body \in RacePutBodies : PutUsers(s, userId, body)
        \/ \E userId \in RaceIds : DeleteUsers(s, userId)
        \/ ReadFile(s)
        \/ WriteFile(s)
        \/ Finish(s)

SpecRace == InitRace /\ [][NextRace]_vars

---------------------------------------------------------------------------
(* Vocabulary of the properties.  These are written from the statements,   *)
(* not from the handlers: they do not use findIndex, checkUserExists or    *)
(* checkEmailInUse.                                                        *)

\* The request of the sequential specification
cur == req[1]

IdOf(user) == Get(user, "id")
EmailOf(user) == Get(user, "email")

\* no two records with the same id, no two with the same email
Unique(items) ==
    \A i, j \in 1..Len(items) :
        i # j => IdOf(items[i]) # IdOf(items[j]) /\ EmailOf(items[i]) # EmailOf(items[j])

\* the records of items whose id, coerced to a number, equals that of userId
Matches(items, userId) ==
    {i \in 1..Len(items) :
        /\ ~Number(IdOf(items[i])).nan
        /\ ~Number(userId).nan
        /\ Number(IdOf(items[i])).n = Number(userId).n}

\* the first of them in collection order
FirstMatch(items, userId) ==
    CHOOSE i \in Matches(items, userId) : \A j \in Matches(items, userId) : i <= j

\* items without its k-th element
Without(items, k) == SubSeq(items, 1, k - 1) \o SubSeq(items, k + 1, Len(items))

Responded(r, method) == r.pc = "done" /\ r.method = method
Success(r) == r.res.status \in {200, 201}
Loaded(r) == r.fileContent.kind = "array"
StorageFault(r) == r.err \in {"readFile", "writeFile"}

---------------------------------------------------------------------------
(* C1. Uniqueness invariant: starting from a users file in which no two    *)
(* records have the same id or the same email, after any sequence of       *)
(* Create, Update and Delete requests that run one after the other, the    *)
(* users file still holds no two records with the same id and no two with  *)
(* the same email.                                                         *)

UniquenessInvariant == file.kind = "array" => Unique(file.items)

\* an Update that changed an e-mail has been saved beside another record
UniquenessWitness ==
    /\ Responded(cur, "PUT") /\ Success(cur)
    /\ cur.body.email.type # "undefined"
    /\ Len(file.items) >= 2
    /\ EmailOf(cur.fileContent.items[cur.userIndex]) # cur.body.email

---------------------------------------------------------------------------
(* C2. Create success: a Create whose input passes validateUserForCreation *)
(* and whose id and email are those of no record of the collection it      *)
(* loaded succeeds (no storage fault), the users file is then the loaded   *)
(* collection with the record {id, name, email, age} appended as its last  *)
(* element, and the record returned is the appended one.                   *)

CreateSuccess ==
    LET old == cur.fileContent.items
        new == User(cur.body.id, cur.body.name, cur.body.email, cur.body.age)
    IN
    ( /\ Responded(cur, "POST") /\ Loaded(cur) /\ ~StorageFault(cur)
      /\ validateUserForCreation(cur.body).isValid
      /\ \A i \in 1..Len(old) :
            IdOf(old[i]) # cur.body.id /\ EmailOf(old[i]) # cur.body.email )
    => /\ cur.res.status = 201
       /\ file.kind = "array"
       /\ Len(file.items) = Len(old) + 1
       /\ \A i \in 1..Len(old) : file.items[i] = old[i]
       /\ file.items[Len(file.items)] = new
       /\ cur.res.body = <<new>>

\* a Create has succeeded on a collection that already held a record
CreateSuccessWitness ==
    /\ Responded(cur, "POST") /\ cur.res.status = 201
    /\ Len(cur.fileContent.items) >= 1
    /\ Len(file.items) = Len(cur.fileContent.items) + 1

---------------------------------------------------------------------------
(* C3. Rejection leaves the store unchanged: the users file changes only   *)
(* in the step that saves it for a Create, Update or Delete that then      *)
(* reports success; whenever List runs, or Create, Update or Delete        *)
(* reject after loading (DuplicateIdentifier, NotFound, DuplicateEmail),   *)
(* the users file is the collection that was loaded; a Create whose id or  *)
(* email is used by a record is rejected with DuplicateIdentifier; and an  *)
(* Update that supplies a name and an email used by another record is      *)
(* rejected with DuplicateEmail, the new name not being persisted.         *)

\* the id or the email of the body is used by a record of items
Reuses(items, body) ==
    \E i \in 1..Len(items) : IdOf(items[i]) = body.id \/ EmailOf(items[i]) = body.email

\* the email of the body is that of a record of items at a position other than k
Conflicts(items, body, k) ==
    \E j \in 1..Len(items) : j # k /\ EmailOf(items[j]) = body.email

RejectedUnchanged(r) ==
    /\ ( /\ r.pc = "done" /\ Loaded(r)
         /\ (r.method = "GET" \/ ~Success(r)) /\ r.err # "writeFile" )
       => file = r.fileContent
    /\ ( /\ Responded(r, "POST") /\ Loaded(r)
         /\ validateUserForCreation(r.body).isValid
         /\ Reuses(r.fileContent.items, r.body) )
       => /\ r.res.status = 409
          /\ r.res.error = "User with this id or email already exists"
          /\ file = r.fileContent
    /\ ( /\ Responded(r, "PUT") /\ Loaded(r)
         /\ validateUserForUpdate(r.body).isValid
         /\ r.body.email.type # "undefined"
         /\ Matches(r.fileContent.items, r.userId) # {}
         /\ Conflicts(r.fileContent.items, r.body,
                      FirstMatch(r.fileContent.items, r.userId)) )
       => /\ r.res.status = 409
          /\ r.res.error = "Email already in use by another user"
          /\ file = r.fileContent

RejectionLeavesStoreUnchanged ==
    [][ /\ file' # file =>
            /\ cur.pc = "writeFile"
            /\ cur.method \in {"POST", "PUT", "DELETE"}
            /\ Responded(cur', cur.method) /\ Success(cur')
        /\ (cur'.pc = "done" /\ cur.pc # "done" /\ ~Success(cur')) => file' = file
        /\ RejectedUnchanged(cur') ]_vars

\* an Update with a new name and another record's email was rejected with
\* DuplicateEmail: the name was assigned in memory and is not in the file
RejectionWitness ==
    /\ Responded(cur, "PUT") /\ cur.res.status = 409
    /\ cur.body.name.type # "undefined"
    /\ Get(cur.usersData[cur.userIndex], "name") = cur.body.name
    /\ Get(file.items[cur.userIndex], "name") # cur.body.name
    /\ file = cur.fileContent

---------------------------------------------------------------------------
(* C4. Partial update frame: a successful Update modifies only the first   *)
(* record in collection order whose Number(id) equals Number(requestedId), *)
(* and in it only the fields among name, email, age that are present in    *)
(* the partial; its id, its other fields, every other record, the length   *)
(* and the order of the collection are unchanged.                          *)

PartialUpdateFrame ==
    LET old == cur.fileContent.items
        k == FirstMatch(old, cur.userId)
        Supplied(f) == f \in {"name", "email", "age"} /\ cur.body[f].type # "undefined"
    IN
    (Responded(cur, "PUT") /\ Success(cur))
    => /\ Matches(old, cur.userId) # {}
       /\ file.kind = "array"
       /\ Len(file.items) = Len(old)
       /\ \A i \in 1..Len(old) : i # k => file.items[i] = old[i]
       /\ \A f \in Fields :
            Get(file.items[k], f) = IF Supplied(f) THEN cur.body[f] ELSE Get(old[k], f)
       /\ cur.res.body = <<file.items[k]>>

\* an Update with only a name has changed the name of the first of two
\* records with the same numeric id, and nothing else
PartialUpdateWitness ==
    /\ Responded(cur, "PUT") /\ Success(cur)
    /\ cur.body.name.type # "undefined"
    /\ cur.body.email.type = "undefined" /\ cur.body.age.type = "undefined"
    /\ Cardinality(Matches(cur.fileContent.items, cur.userId)) = 2
    /\ Get(cur.fileContent.items[1], "name") # cur.body.name
    /\ Get(file.items[1], "name") = cur.body.name
    /\ EmailOf(file.items[1]) = EmailOf(cur.fileContent.items[1])

---------------------------------------------------------------------------
(* C5. Delete of an existing id: when the requested id passes              *)
(* validateUserId and a record has Number(id) equal to Number(requestedId),*)
(* Delete (no storage fault) removes exactly the first such record, the    *)
(* others, a later record with the same numeric id included, keep their    *)
(* order, and it returns that record's id, name and email without its age. *)

DeleteExisting ==
    LET old == cur.fileContent.items
        k == FirstMatch(old, cur.userId)
    IN
    ( /\ Responded(cur, "DELETE") /\ Loaded(cur) /\ ~StorageFault(cur)
      /\ validateUserId(cur.userId).isValid
      /\ Matches(old, cur.userId) # {} )
    => /\ cur.res.status = 200
       /\ file = ArrayDoc(Without(old, k))
       /\ Len(cur.res.body) = 1
       /\ "age" \notin DOMAIN cur.res.body[1]
       /\ \A f \in {"id", "name", "email"} : Get(cur.res.body[1], f) = Get(old[k], f)

\* a Delete has removed the first of two records with the same numeric id
DeleteExistingWitness ==
    /\ Responded(cur, "DELETE") /\ cur.res.status = 200
    /\ Cardinality(Matches(cur.fileContent.items, cur.userId)) = 2
    /\ Len(file.items) = 1
    /\ file.items[1] = cur.fileContent.items[2]
    /\ "age" \in DOMAIN cur.fileContent.items[1]

---------------------------------------------------------------------------
(* C6. Delete on an id that is not numeric-coercible (Number(id) is NaN)   *)
(* never matches a record.  As claimed: it always returns NotFound.        *)

DeleteNonNumericNotFound ==
    (Responded(cur, "DELETE") /\ Number(cur.userId).nan)
    => cur.res.status = 404 /\ cur.res.error = "User not found"

(* C6, amended: Delete on an id that is not numeric-coercible is always    *)
(* rejected by validateUserId as InvalidInput (400, "User ID must be a     *)
(* valid positive number") before the collection is loaded, whether or not *)
(* a record with that literal id exists; no record is matched or removed.  *)

DeleteNonNumericInvalid ==
    (cur.method = "DELETE" /\ Number(cur.userId).nan)
    => /\ cur.pc = "done"
       /\ cur.res.status = 400
       /\ cur.res.error = "User ID must be a valid positive number"
       /\ cur.fileContent = NoDoc
       /\ cur.usersData = <<>>

\* Delete of "abc" was rejected while a record with the id "abc" is in the file
DeleteNonNumericWitness ==
    /\ Responded(cur, "DELETE") /\ Number(cur.userId).nan
    /\ cur.res.status = 400
    /\ \E i \in 1..Len(file.items) : IdOf(file.items[i]) = cur.userId

---------------------------------------------------------------------------
(* C7. Lost update under racing operations: when two Creates with distinct *)
(* ids and emails have loaded the same collection and the first has saved  *)
(* and reported success, the save of the second overwrites the file with   *)
(* its own copy: it reports success too, no conflict is detected, and the  *)
(* file holds the record of the second and not that of the first.          *)

LastWriteWins ==
    [][ \A s, t \in Slots :
          ( /\ s # t
            /\ Responded(req[t], "POST") /\ req[t].res.status = 201
            /\ req[s].pc = "writeFile" /\ req[s].method = "POST"
            /\ req[s].fileContent = req[t].fileContent
            /\ req[s].body.id # req[t].body.id
            /\ req[s].body.email # req[t].body.email
            /\ file.items = Append(req[t].fileContent.items, newUserOf(req[t].body))
            /\ req'[s].pc = "done" /\ ~StorageFault(req'[s]) )
          => /\ req'[s].res.status = 201
             /\ req'[t] = req[t]
             /\ file'.items = Append(req[s].fileContent.items, newUserOf(req[s].body))
             /\ \A i \in 1..Len(file'.items) : IdOf(file'.items[i]) # req[t].body.id ]_vars

\* two Creates have both reported success and the file holds only one of
\* the two records
LostUpdateWitness ==
    \E s, t \in Slots :
        /\ s # t
        /\ Responded(req[s], "POST") /\ req[s].res.status = 201
        /\ Responded(req[t], "POST") /\ req[t].res.status = 201
        /\ req[s].body.id # req[t].body.id
        /\ req[s].body.email # req[t].body.email
        /\ req[s].fileContent = req[t].fileContent
        /\ Len(file.items) = Len(req[s].fileContent.items) + 1
        /\ file.items[Len(file.items)] = newUserOf(req[s].body)
        /\ \A i \in 1..Len(file.items) : IdOf(file.items[i]) # req[t].body.id

---------------------------------------------------------------------------
(* C8. List outcome: List (no storage fault) rejects with EmptyCollection  *)
(* when what it loaded is not a non-empty array; otherwise with            *)
(* MalformedRecord when a record lacks (undefined or null) one of id,      *)
(* name, email, age; otherwise it returns the collection as loaded,        *)
(* element for element in the same order.                                  *)

Lacks(user, f) == Get(user, f) = Undefined \/ Get(user, f) = Null

ListOutcome ==
    LET doc == cur.fileContent IN
    (Responded(cur, "GET") /\ doc.kind # "none" /\ ~StorageFault(cur))
    => IF doc.kind # "array" \/ doc.items = <<>>
       THEN cur.res.status = 404 /\ cur.res.error = "No users found"
       ELSE IF \E i \in 1..Len(doc.items) : \E f \in Fields : Lacks(doc.items[i], f)
       THEN cur.res.status = 500 /\ cur.res.error = "Invalid user data detected"
       ELSE cur.res.status = 200 /\ cur.res.error = "" /\ cur.res.body = doc.items

\* List was rejected with MalformedRecord for a record without an email
ListOutcomeWitness ==
    /\ Responded(cur, "GET")
    /\ cur.res.error = "Invalid user data detected"
    /\ \E i \in 1..Len(cur.fileContent.items) :
          "email" \notin DOMAIN cur.fileContent.items[i]

---------------------------------------------------------------------------
(* C9. Email conflict on update: an Update (valid partial, record located) *)
(* that supplies the email of a record at another position than the        *)
(* located one is rejected with DuplicateEmail; one that supplies the      *)
(* located record's own email, used by no other record, is not rejected    *)
(* as a duplicate and succeeds (no storage fault).                         *)

EmailConflictOnUpdate ==
    LET old == cur.fileContent.items
        k == FirstMatch(old, cur.userId)
    IN
    ( /\ Responded(cur, "PUT") /\ Loaded(cur)
      /\ validateUserForUpdate(cur.body).isValid
      /\ cur.body.email.type # "undefined"
      /\ Matches(old, cur.userId) # {} )
    => /\ Conflicts(old, cur.body, k)
          => /\ cur.res.status = 409
             /\ cur.res.error = "Email already in use by another user"
       /\ (EmailOf(old[k]) = cur.body.email /\ ~Conflicts(old, cur.body, k)
           /\ ~StorageFault(cur))
          => /\ cur.res.status = 200
             /\ EmailOf(file.items[k]) = cur.body.email

\* an Update supplying the located record's own email has succeeded beside
\* another record
OwnEmailWitness ==
    /\ Responded(cur, "PUT") /\ cur.res.status = 200
    /\ Len(cur.fileContent.items) >= 2
    /\ cur.body.email.type # "undefined"
    /\ EmailOf(cur.fileContent.items[cur.userIndex]) = cur.body.email

---------------------------------------------------------------------------
(* C10. Non-numeric ids are unreachable for update and delete: a record    *)
(* whose id is not numeric-coercible is in the users file after every      *)
(* step of every request, with the same fields.                            *)

NonNumeric(user) == Number(IdOf(user)).nan

NonNumericIdsStay ==
    [][ \A i \in 1..Len(file.items) :
          NonNumeric(file.items[i])
          => \E j \in 1..Len(file'.items) : file'.items[j] = file.items[i] ]_vars

\* an Update asking for the id "abc" was answered NotFound while the record
\* with the id "abc" is in the file
NonNumericIdsWitness ==
    /\ Responded(cur, "PUT") /\ cur.res.status = 404
    /\ Number(cur.userId).nan
    /\ \E i \in 1..Len(file.items) : IdOf(file.items[i]) = cur.userId

---------------------------------------------------------------------------
(* C11. Create check order: Create evaluates required-fields, name, age,   *)
(* email, then duplicate existence, and answers with the error of the      *)
(* first check that fails; an invalid input, also one that reuses an       *)
(* existing id or email, is rejected as InvalidInput (never                *)
(* DuplicateIdentifier) without the collection being loaded.               *)

\* the checks of Create that body fails, in the order of the statement
FailedCreateChecks(body) ==
    SelectSeq(<<validateRequiredFields(body), validateName(body.name),
                validateAge(body.age), validateEmail(body.email)>>,
              LAMBDA v : ~v.isValid)

CreateCheckOrder ==
    cur.method = "POST"
    => IF FailedCreateChecks(cur.body) # <<>>
       THEN /\ cur.pc = "done"
            /\ cur.res.status = 400
            /\ cur.res.error = Head(FailedCreateChecks(cur.body)).error
            /\ cur.fileContent = NoDoc
       ELSE (Responded(cur, "POST") /\ Loaded(cur)
             /\ Reuses(cur.fileContent.items, cur.body))
            => cur.res.status = 409

\* a Create whose name, age and email are all invalid and whose id is that
\* of a record of the file was answered with the error of the name
CreateCheckOrderWitness ==
    /\ Responded(cur, "POST") /\ cur.res.status = 400
    /\ Len(FailedCreateChecks(cur.body)) = 3
    /\ cur.res.error = "Name must be at least 2 characters long"
    /\ \E i \in 1..Len(file.items) : IdOf(file.items[i]) = cur.body.id

---------------------------------------------------------------------------
(* C12. Update check order: Update validates the present fields of the     *)
(* partial in the order name, email, age and rejects with the first        *)
(* failure before the record is looked up (the collection is not loaded);  *)
(* a valid partial is rejected with NotFound when no record has Number(id) *)
(* equal to Number(requestedId), whatever its email; only when a record is *)
(* located is the email conflict checked.                                  *)

Present(v) == v.type # "undefined"

\* the checks of Update that the present fields of body fail, in the order
\* of the statement
FailedUpdateChecks(body) ==
    SelectSeq(<<IF Present(body.name) THEN validateName(body.name) ELSE Valid,
                IF Present(body.email) THEN validateEmail(body.email) ELSE Valid,
                IF Present(body.age) THEN validateAge(body.age) ELSE Valid>>,
              LAMBDA v : ~v.isValid)

UpdateCheckOrder ==
    cur.method = "PUT"
    => IF FailedUpdateChecks(cur.body) # <<>>
       THEN /\ cur.pc = "done"
            /\ cur.res.status = 400
            /\ cur.res.error = Head(FailedUpdateChecks(cur.body)).error
            /\ cur.fileContent = NoDoc
       ELSE (Responded(cur, "PUT") /\ Loaded(cur))
            => IF Matches(cur.fileContent.items, cur.userId) = {}
               THEN cur.res.status = 404 /\ cur.res.error = "User not found"
               ELSE cur.res.status = 409
                    <=> /\ Present(cur.body.email)
                        /\ Conflicts(cur.fileContent.items, cur.body,
                                     FirstMatch(cur.fileContent.items, cur.userId))

\* an Update of an id that no record has, with an invalid email and an
\* invalid age, was answered with the error of the email
UpdateCheckOrderWitness ==
    /\ Responded(cur, "PUT") /\ cur.res.status = 400
    /\ Len(FailedUpdateChecks(cur.body)) = 2
    /\ cur.res.error = "Invalid email format"
    /\ file.items # <<>>
    /\ Matches(file.items, cur.userId) = {}

---------------------------------------------------------------------------
(* C13. Uniqueness survives races: under every interleaving of the loads   *)
(* and the saves of concurrently running Create, Update and Delete         *)
(* requests, from a users file without duplicates, the users file holds no *)
(* two records with the same id and no two with the same email; nor does   *)
(* the copy that a request is about to save.                               *)

UniquenessUnderRaces ==
    /\ Unique(file.items)
    /\ \A s \in Slots : req[s].pc = "writeFile" => Unique(req[s].usersData)

\* a Create and an Update that loaded the same collection have both
\* succeeded with the same email: the file, saved last by the Create, holds
\* the email once
RaceUniquenessWitness ==
    \E s, t \in Slots :
        /\ Responded(req[s], "POST") /\ Success(req[s])
        /\ Responded(req[t], "PUT") /\ Success(req[t])
        /\ req[s].fileContent = req[t].fileContent
        /\ req[s].body.email = req[t].body.email
        /\ file.items = Append(req[s].fileContent.items, newUserOf(req[s].body))
        /\ Cardinality({i \in 1..Len(file.items) :
                           EmailOf(file.items[i]) = req[s].body.email}) = 1

====
